---------------------------- MODULE Spec2Model ----------------------------
(***************************************************************************)
(* Board state, optimistic reconciliation, drag session and move engine of *)
(* the KanbanBoard control (src/unnamed/part_000).                         *)
(*                                                                         *)
(* Status strings and column titles are sequences of character codes so    *)
(* that String.prototype.toLowerCase is computed, not assumed.  Task ids,  *)
(* column ids and task titles are only ever compared for equality and are  *)
(* plain strings.                                                          *)
(***************************************************************************)
EXTENDS Integers, Sequences, FiniteSets, TLC

(***************************************************************************)
(* Bounds of the exploration.                                              *)
(***************************************************************************)
MaxSteps == 4
MaxRecords == 2
MaxDefs == 3
MaxMoves == 2

(***************************************************************************)
(* Strings as character codes.                                             *)
(***************************************************************************)
sEmpty == << >>
sVal == <<118, 97, 108>>
sUnknown == <<85, 110, 107, 110, 111, 119, 110>>
sTodo == <<84, 111, 100, 111>>
sNew == <<78, 101, 119>>
sOpen == <<79, 112, 101, 110>>
sInProgress == <<73, 110, 32, 80, 114, 111, 103, 114, 101, 115, 115>>
sActive == <<65, 99, 116, 105, 118, 101>>
sWorking == <<87, 111, 114, 107, 105, 110, 103>>
sReview == <<82, 101, 118, 105, 101, 119>>
sTesting == <<84, 101, 115, 116, 105, 110, 103>>
sValidation == <<86, 97, 108, 105, 100, 97, 116, 105, 111, 110>>
sDone == <<68, 111, 110, 101>>
sCompleted == <<67, 111, 109, 112, 108, 101, 116, 101, 100>>
sClosed == <<67, 108, 111, 115, 101, 100>>
sDoneLower == <<100, 111, 110, 101>>
sToDoTitle == <<84, 111, 32, 68, 111>>
sXTitle == <<88>>
sDoneUpper == <<68, 79, 78, 69>>

\* String.prototype.toLowerCase on the ASCII range: 'A'..'Z' -> 'a'..'z'.
toLowerCase(s) ==
    [i \in 1..Len(s) |-> IF s[i] >= 65 /\ s[i] <= 90 THEN s[i] + 32 ELSE s[i]]

\* The JavaScript `a || b` on strings: the empty string is falsy.
OrElse(a, b) == IF a = sEmpty THEN b ELSE a

\* The same on plain (title / id) strings.
OrElseStr(a, b) == IF a = "" THEN b ELSE a

(***************************************************************************)
(* Optional fields of a Task.                                              *)
(***************************************************************************)
OptUndefined == "undefined"
OptTrue == "true"
OptFalse == "false"
NoRecordId == ""
NoColor == "undefined"
Null == "null"

\* interface Task (the pass-through display fields are left out).
Task(id, title, status, recordId, opt) ==
    [id |-> id, title |-> title, status |-> status,
     recordId |-> recordId, isOptimistic |-> opt]

\* interface Column.
Column(id, title, statusValues, taskIds) ==
    [id |-> id, title |-> title, taskIds |-> taskIds,
     statusValues |-> statusValues, color |-> NoColor]

\* interface ColumnDefinition.
ColumnDefinition(id, title, statusValues) ==
    [id |-> id, title |-> title, statusValues |-> statusValues, color |-> NoColor]

\* interface BoardData.
BoardData(tasks, columns, columnOrder) ==
    [tasks |-> tasks, columns |-> columns, columnOrder |-> columnOrder]

\* An object with no own keys.
EmptyMap == [k \in {} |-> Null]

Range(s) == {s[i] : i \in 1..Len(s)}

Has(map, k) == k \in DOMAIN map

\* obj[key] = value on a Record<string, T>.
Put(map, k, v) == [x \in (DOMAIN map) \cup {k} |-> IF x = k THEN v ELSE map[x]]

(***************************************************************************)
(* Column definitions.                                                     *)
(***************************************************************************)
getDefaultColumnDefinitions ==
    << ColumnDefinition("todo", sToDoTitle, <<sTodo, sNew, sOpen>>),
       ColumnDefinition("inprogress", sInProgress, <<sInProgress, sActive, sWorking>>),
       ColumnDefinition("review", sReview, <<sReview, sTesting, sValidation>>),
       ColumnDefinition("done", sDone, <<sDone, sCompleted, sClosed>>) >>

\* The same search comparing the alias and the status as they are written.
RECURSIVE FirstMatchExact(_, _, _)
FirstMatchExact(defs, status, i) ==
    IF i > Len(defs) THEN 0
    ELSE IF \E j \in 1..Len(defs[i].statusValues) : defs[i].statusValues[j] = status
         THEN i
         ELSE FirstMatchExact(defs, status, i + 1)

\* The index of the first definition one of whose aliases equals the status
\* ignoring case, 0 when there is none.
RECURSIVE FirstMatch(_, _, _)
FirstMatch(defs, status, i) ==
    IF i > Len(defs) THEN 0
    ELSE IF \E j \in 1..Len(defs[i].statusValues) :
                toLowerCase(defs[i].statusValues[j]) = toLowerCase(status)
         THEN i
         ELSE FirstMatch(defs, status, i + 1)

getColumnIdByStatus(defs, status) ==
    LET m == FirstMatch(defs, status, 1) IN
    IF m > 0 THEN defs[m].id
    ELSE IF Len(defs) > 0 THEN defs[1].id ELSE Null

\* A status as a caller of getColumnIdByStatus holds it: a string, or
\* undefined when the task object has no status property.
JsString(text) == [defined |-> TRUE, text |-> text]
JsUndefined == [defined |-> FALSE, text |-> sEmpty]

\* A call of getColumnIdByStatus, with how it ends.  status.toLowerCase()
\* at line 718 is evaluated by the callback of `some`, so the call raises a
\* TypeError on an undefined status as soon as the loop reaches a definition
\* that has an alias; no earlier definition can have returned.
callGetColumnIdByStatus(defs, status) ==
    IF ~status.defined /\ \E i \in 1..Len(defs) : Len(defs[i].statusValues) > 0
    THEN [raises |-> TRUE, columnId |-> Null]
    ELSE [raises |-> FALSE, columnId |-> getColumnIdByStatus(defs, status.text)]

\* The empty board with columnOrder filled by unshift in place of push.
getEmptyBoardDataUnshift(defs) ==
    BoardData(EmptyMap,
              [c \in {defs[i].id : i \in 1..Len(defs)} |->
                  LET d == CHOOSE d \in Range(defs) : d.id = c IN
                  [id |-> d.id, title |-> d.title, taskIds |-> << >>,
                   statusValues |-> d.statusValues, color |-> d.color]],
              [i \in 1..Len(defs) |-> defs[Len(defs) + 1 - i].id])

\* Lines 725-745.  Definition ids are distinct, so each column is built from
\* the one definition that has its id.
getEmptyBoardData(defs) ==
    BoardData(EmptyMap,
              [c \in {defs[i].id : i \in 1..Len(defs)} |->
                  LET d == CHOOSE d \in Range(defs) : d.id = c IN
                  [id |-> d.id, title |-> d.title, taskIds |-> << >>,
                   statusValues |-> d.statusValues, color |-> d.color]],
              [i \in 1..Len(defs) |-> defs[i].id])

SampleTask(id, status) == Task(id, "Sample", status, NoRecordId, OptUndefined)

getEmptyBoardDataWithSamples(defs) ==
    LET e == getEmptyBoardData(defs)
        sampleTasks ==
            [id \in {"task-1", "task-2", "task-3", "task-4", "task-5", "task-6"} |->
                CASE id = "task-1" -> SampleTask(id, sTodo)
                  [] id = "task-2" -> SampleTask(id, sInProgress)
                  [] id = "task-3" -> SampleTask(id, sReview)
                  [] id = "task-4" -> SampleTask(id, sDone)
                  [] id = "task-5" -> SampleTask(id, sTodo)
                  [] id = "task-6" -> SampleTask(id, sInProgress)]
        cols ==
            [c \in DOMAIN e.columns |->
                [e.columns[c] EXCEPT !.taskIds =
                    CASE c = "todo" -> <<"task-1", "task-5">>
                      [] c = "inprogress" -> <<"task-2", "task-6">>
                      [] c = "review" -> <<"task-3">>
                      [] c = "done" -> <<"task-4">>
                      [] OTHER -> << >>]]
    IN BoardData(sampleTasks, cols, e.columnOrder)

(***************************************************************************)
(* loadFromDataset                                                         *)
(***************************************************************************)
NoDataSet == [present |-> FALSE, loading |-> FALSE, records |-> << >>]

\* One record of the dataset: its record id and the formatted values of the
\* aliases 'id', 'title' and 'status' ("" also stands for a read that threw).
Record(recordId, id, title, status) ==
    [recordId |-> recordId, id |-> id, title |-> title, status |-> status]

\* Lines 526-530: the harness sentinel.
IsHarnessMock(r) == r.title = "val" /\ r.status = sVal

\* Lines 532-559: the incoming task, reconciled against the board as it was
\* before the load (this._boardData.tasks is replaced only at line 578).
ReconcileTask(oldTasks, r) ==
    LET id == OrElseStr(r.id, r.recordId)
        incomingStatus == OrElse(r.status, sUnknown)
        task == Task(id, OrElseStr(r.title, "Untitled"), incomingStatus,
                     r.recordId, OptUndefined)
    IN IF Has(oldTasks, id) /\ oldTasks[id].isOptimistic = OptTrue
       THEN IF oldTasks[id].status # incomingStatus
            THEN [task EXCEPT !.status = oldTasks[id].status, !.isOptimistic = OptTrue]
            ELSE [task EXCEPT !.isOptimistic = OptFalse]
       ELSE task

\* Lines 564-575: push the id on the classified column, or on the first
\* column of columnOrder, or nowhere.
AssignToColumn(columns, columnOrder, defs, task) ==
    LET columnId == getColumnIdByStatus(defs, task.status) IN
    IF columnId # Null /\ Has(columns, columnId)
    THEN [columns EXCEPT ![columnId].taskIds = Append(@, task.id)]
    ELSE IF Len(columnOrder) > 0 /\ Has(columns, columnOrder[1])
         THEN [columns EXCEPT ![columnOrder[1]].taskIds = Append(@, task.id)]
         ELSE columns

\* Line 573 reads .taskIds of columns[firstColId]: a TypeError when
\* columnOrder names a first column that the columns map does not hold.
AssignThrows(columns, columnOrder, defs, task) ==
    LET columnId == getColumnIdByStatus(defs, task.status) IN
    /\ ~(columnId # Null /\ Has(columns, columnId))
    /\ Len(columnOrder) > 0
    /\ ~Has(columns, columnOrder[1])

\* Lines 510-576: the forEach over sortedRecordIds, from record i on;
\* acc is [tasks, columns, threw].
RECURSIVE DatasetLoop(_, _, _, _, _)
DatasetLoop(board, defs, records, i, acc) ==
    IF i > Len(records) THEN acc
    ELSE LET r == records[i] IN
         IF IsHarnessMock(r)
         THEN DatasetLoop(board, defs, records, i + 1, acc)
         ELSE LET task == ReconcileTask(board.tasks, r) IN
              IF AssignThrows(acc.columns, board.columnOrder, defs, task)
              THEN [acc EXCEPT !.threw = TRUE]
              ELSE DatasetLoop(board, defs, records, i + 1,
                      [tasks |-> Put(acc.tasks, task.id, task),
                       columns |-> AssignToColumn(acc.columns, board.columnOrder, defs, task),
                       threw |-> FALSE])

\* loadFromDataset without the clearing of the column lists at lines 502-504.
loadFromDatasetKeepingLists(board, defs, dataSet) ==
    IF ~dataSet.present
    THEN [board |-> board, threw |-> FALSE]
    ELSE LET r == DatasetLoop(board, defs, dataSet.records, 1,
                              [tasks |-> EmptyMap, columns |-> board.columns,
                               threw |-> FALSE])
         IN [board |-> BoardData(IF r.threw THEN board.tasks ELSE r.tasks,
                                 r.columns, board.columnOrder),
             threw |-> r.threw]

\* The board loadFromDataset leaves and whether it threw.  When it throws,
\* line 578 is not reached: the task map is the old one, while the column
\* lists, cleared and refilled in place, are as the loop left them.
loadFromDataset(board, defs, dataSet) ==
    LET cleared == [c \in DOMAIN board.columns |->
                        [board.columns[c] EXCEPT !.taskIds = << >>]]
    IN IF ~dataSet.present
       THEN [board |-> BoardData(board.tasks, cleared, board.columnOrder), threw |-> FALSE]
       ELSE LET r == DatasetLoop(board, defs, dataSet.records, 1,
                                 [tasks |-> EmptyMap, columns |-> cleared, threw |-> FALSE])
            IN [board |-> BoardData(IF r.threw THEN board.tasks ELSE r.tasks,
                                    r.columns, board.columnOrder),
                threw |-> r.threw]

(***************************************************************************)
(* loadFromLegacyData                                                      *)
(***************************************************************************)
\* The value of context.parameters.tasksData.raw after JSON.parse:
\*   kind "none"    - raw is absent or empty (falsy)
\*   kind "invalid" - JSON.parse throws
\*   kind "array"   - a flat list; items are tasks or null
\*   kind "object"  - an object owning the keys in `has`
LegacyValue(kind, items, has, tasks, columns, columnOrder) ==
    [kind |-> kind, items |-> items, has |-> has,
     tasks |-> tasks, columns |-> columns, columnOrder |-> columnOrder]

NoLegacy == LegacyValue("none", << >>, {}, EmptyMap, EmptyMap, << >>)
InvalidJson == LegacyValue("invalid", << >>, {}, EmptyMap, EmptyMap, << >>)
FlatList(items) == LegacyValue("array", items, {}, EmptyMap, EmptyMap, << >>)
Bundle(has, tasks, columns, columnOrder) ==
    LegacyValue("object", << >>, has, tasks, columns, columnOrder)

Item(task) == [isNull |-> FALSE, hasStatus |-> TRUE, task |-> task]
NullItem ==
    [isNull |-> TRUE, hasStatus |-> FALSE,
     task |-> Task(Null, "", sEmpty, NoRecordId, OptUndefined)]

\* An item object that has no status property (line 595 casts, it does not
\* check); the status field of its task is a placeholder for undefined.
ItemWithoutStatus(task) ==
    [isNull |-> FALSE, hasStatus |-> FALSE, task |-> [task EXCEPT !.status = sEmpty]]

\* The status of an item as line 597 passes it to getColumnIdByStatus.
ItemStatus(item) == IF item.hasStatus THEN JsString(item.task.status) ELSE JsUndefined

\* Lines 589 and 602: { ...emptyBoard, ...parsedData }.
ShallowMerge(emptyBoard, parsed) ==
    BoardData(IF "tasks" \in parsed.has THEN parsed.tasks ELSE emptyBoard.tasks,
              IF "columns" \in parsed.has THEN parsed.columns ELSE emptyBoard.columns,
              IF "columnOrder" \in parsed.has THEN parsed.columnOrder
                                              ELSE emptyBoard.columnOrder)

\* Lines 594-599: the forEach over the flat list, from item i on.  Reading
\* task.id of a null item throws; classifying an item without status throws
\* at line 597, after line 596 has put the task in the map.  The catch at
\* line 604 keeps what this._boardData (already the new board, line 593)
\* holds by then.
RECURSIVE FlatLoop(_, _, _, _)
FlatLoop(board, defs, items, i) ==
    IF i > Len(items) \/ items[i].isNull THEN board
    ELSE LET task == items[i].task
             call == callGetColumnIdByStatus(defs, ItemStatus(items[i]))
             colId == call.columnId
             withTask == [board EXCEPT !.tasks = Put(@, task.id, task)]
         IN IF call.raises THEN withTask
            ELSE FlatLoop(IF colId # Null
                          THEN [withTask EXCEPT !.columns[colId].taskIds = Append(@, task.id)]
                          ELSE withTask,
                          defs, items, i + 1)

loadFromLegacyData(board, defs, parsed) ==
    LET emptyBoard == getEmptyBoardData(defs) IN
    CASE parsed.kind = "invalid" -> board
      [] parsed.kind = "array" -> FlatLoop(emptyBoard, defs, parsed.items, 1)
      [] OTHER -> ShallowMerge(emptyBoard, parsed)

(***************************************************************************)
(* loadData                                                                *)
(***************************************************************************)
LoadPath(dataSet, legacy) ==
    IF dataSet.present /\ ~dataSet.loading /\ Len(dataSet.records) > 0
    THEN "dataset"
    ELSE IF legacy.kind # "none" THEN "legacy" ELSE "samples"

\* The board loadData leaves and whether it threw.
loadData(board, defs, dataSet, legacy) ==
    CASE LoadPath(dataSet, legacy) = "dataset" ->
            LET r == loadFromDataset(board, defs, dataSet) IN
            IF ~r.threw /\ DOMAIN r.board.tasks = {}
            THEN [board |-> getEmptyBoardDataWithSamples(defs), threw |-> FALSE]
            ELSE r
      [] LoadPath(dataSet, legacy) = "legacy" ->
            [board |-> loadFromLegacyData(board, defs, legacy), threw |-> FALSE]
      [] OTHER -> [board |-> getEmptyBoardDataWithSamples(defs), threw |-> FALSE]

(***************************************************************************)
(* moveTask                                                                *)
(***************************************************************************)
\* indexOf + splice(index, 1): drop the first occurrence, if any.
RECURSIVE RemoveFirst(_, _)
RemoveFirst(s, x) ==
    IF s = << >> THEN << >>
    ELSE IF Head(s) = x THEN Tail(s)
    ELSE <<Head(s)>> \o RemoveFirst(Tail(s), x)

\* Line 1647: targetColumn.statusValues[0] || targetColumn.title.
TargetStatus(column) ==
    IF Len(column.statusValues) > 0
    THEN OrElse(column.statusValues[1], column.title)
    ELSE column.title

\* moveTask's guards without the check that the task resolves.
CanMoveUncheckedTask(board, taskId, sourceColumnId, targetColumnId) ==
    /\ sourceColumnId # targetColumnId
    /\ Has(board.columns, sourceColumnId)
    /\ Has(board.columns, targetColumnId)

\* Lines 1633-1639: the guards of moveTask.
CanMove(board, taskId, sourceColumnId, targetColumnId) ==
    /\ sourceColumnId # targetColumnId
    /\ Has(board.columns, sourceColumnId)
    /\ Has(board.columns, targetColumnId)
    /\ Has(board.tasks, taskId)

\* The mutation with unshift in place of push at line 1645.
MoveMutationUnshift(board, taskId, sourceColumnId, targetColumnId) ==
    LET spliced == [board EXCEPT !.columns[sourceColumnId].taskIds = RemoveFirst(@, taskId)]
        pushed == [spliced EXCEPT !.columns[targetColumnId].taskIds = <<taskId>> \o @]
    IN [pushed EXCEPT !.tasks[taskId].status = TargetStatus(pushed.columns[targetColumnId]),
                      !.tasks[taskId].isOptimistic = OptTrue]

\* The mutation, flagging every task of the board as optimistic.
MoveMutationFlaggingAll(board, taskId, sourceColumnId, targetColumnId) ==
    LET spliced == [board EXCEPT !.columns[sourceColumnId].taskIds = RemoveFirst(@, taskId)]
        pushed == [spliced EXCEPT !.columns[targetColumnId].taskIds = Append(@, taskId)]
    IN [pushed EXCEPT !.tasks = [k \in DOMAIN @ |->
            IF k = taskId
            THEN [@[k] EXCEPT !.status = TargetStatus(pushed.columns[targetColumnId]),
                              !.isOptimistic = OptTrue]
            ELSE [@[k] EXCEPT !.isOptimistic = OptTrue]]]

\* Lines 1641-1652: the mutation of the board.
MoveMutation(board, taskId, sourceColumnId, targetColumnId) ==
    LET spliced == [board EXCEPT !.columns[sourceColumnId].taskIds = RemoveFirst(@, taskId)]
        pushed == [spliced EXCEPT !.columns[targetColumnId].taskIds = Append(@, taskId)]
    IN [pushed EXCEPT !.tasks[taskId].status = TargetStatus(pushed.columns[targetColumnId]),
                      !.tasks[taskId].isOptimistic = OptTrue]

\* The board a notification raised ahead of the mutation would show.
BoardAtNotifyEarly(before, after) == before

\* The board the host can observe when _notifyOutputChanged is called at
\* line 1659: the mutation of lines 1641-1652 is behind it.
BoardAtNotify(before, after) == after

\* moveTask as a whole: the new board, whether it moved, and what the
\* notification saw.
moveTask(board, taskId, sourceColumnId, targetColumnId) ==
    IF CanMove(board, taskId, sourceColumnId, targetColumnId)
    THEN LET after == MoveMutation(board, taskId, sourceColumnId, targetColumnId)
         IN [board |-> after, moved |-> TRUE, seen |-> BoardAtNotify(board, after)]
    ELSE [board |-> board, moved |-> FALSE, seen |-> board]

(***************************************************************************)
(* getOutputs                                                              *)
(***************************************************************************)
NoEvent == [kind |-> "none", taskId |-> "", newStatus |-> sEmpty,
            previousStatus |-> sEmpty, title |-> ""]

\* Lines 1662-1676: the lastMovedTask output.  getOutputs assigns no field,
\* so it is a function of the fields it reads.  kind is "none" for the empty
\* string, "throws" when line 1670 reads the title of a column the board does
\* not hold, and "event" otherwise.
getOutputs(board, lastUpdated, sourceCol) ==
    IF lastUpdated = Null \/ ~Has(board.tasks, lastUpdated)
    THEN NoEvent
    ELSE IF sourceCol # Null /\ ~Has(board.columns, sourceCol)
    THEN [NoEvent EXCEPT !.kind = "throws"]
    ELSE LET lastMovedTask == board.tasks[lastUpdated]
         IN [kind |-> "event",
             taskId |-> OrElseStr(lastMovedTask.recordId, lastMovedTask.id),
             newStatus |-> lastMovedTask.status,
             previousStatus |-> IF sourceCol # Null
                                THEN board.columns[sourceCol].title
                                ELSE sEmpty,
             title |-> lastMovedTask.title]

(***************************************************************************)
(* What the host and the user can supply.                                  *)
(***************************************************************************)
RecordIdAt(i) == "r" \o ToString(i)

IdValues == {"", "task-1"}

\* (title, status) pairs a record can carry.
TitleStatusValues ==
    {<<"val", sVal>>, <<"A", sEmpty>>, <<"A", sDone>>, <<"A", sDoneLower>>}

RecordsAt(i) ==
    {Record(RecordIdAt(i), id, ts[1], ts[2]) : id \in IdValues, ts \in TitleStatusValues}

\* The snapshots of exactly n records.
RECURSIVE SnapshotsOfLen(_)
SnapshotsOfLen(n) ==
    IF n = 0 THEN {<< >>}
    ELSE {Append(s, r) : s \in SnapshotsOfLen(n - 1), r \in RecordsAt(n)}

\* The snapshots of 1..n records.
Snapshots(n) == UNION {SnapshotsOfLen(k) : k \in 1..n}

DataSet(loading, records) == [present |-> TRUE, loading |-> loading, records |-> records]

\* Datasets that loadData takes (line 475).
ReadyDataSets == {DataSet(FALSE, s) : s \in Snapshots(MaxRecords)}

\* Datasets that loadData passes over.
UnreadyDataSets ==
    {NoDataSet, DataSet(FALSE, << >>),
     DataSet(TRUE, <<Record(RecordIdAt(1), "", "A", sTodo)>>)}

LegacyTask(id, status, opt) == Task(id, "A", status, NoRecordId, opt)

LegacyItems ==
    {Item(LegacyTask("task-1", sTodo, OptUndefined)),
     Item(LegacyTask("t2", sDoneLower, OptUndefined)),
     ItemWithoutStatus(LegacyTask("t3", sEmpty, OptUndefined)),
     NullItem}

\* The flat lists of exactly n items.
RECURSIVE ItemListsOfLen(_)
ItemListsOfLen(n) ==
    IF n = 0 THEN {<< >>}
    ELSE {Append(s, e) : s \in ItemListsOfLen(n - 1), e \in LegacyItems}

\* The flat lists of 0..n items.
ItemLists(n) == UNION {ItemListsOfLen(k) : k \in 0..n}

OneTask(t) == [k \in {t.id} |-> t]

DefaultColumnsWith(lists) ==
    LET e == getEmptyBoardData(getDefaultColumnDefinitions) IN
    [c \in DOMAIN e.columns |->
        [e.columns[c] EXCEPT !.taskIds = IF c \in DOMAIN lists THEN lists[c] ELSE << >>]]

Absent == "absent"

BundleTasks == {OneTask(LegacyTask("task-1", sDone, OptTrue))}

\* A bundle's own columns: "x" declares no status aliases.
CustomColumns ==
    [c \in {"x", "done"} |->
        IF c = "x" THEN Column("x", sXTitle, << >>, << >>)
        ELSE Column("done", sDone, <<sDone, sCompleted, sClosed>>, <<"task-1">>)]

BundleColumns ==
    {DefaultColumnsWith([c \in {"done"} |-> <<"task-1">>]),
     DefaultColumnsWith([c \in {"todo", "done"} |-> <<"task-1">>]),
     CustomColumns}

BundleOrders == {<<"x", "done">>}

Bundles ==
    {Bundle(has, t, c, o) :
        has \in SUBSET {"tasks", "columns", "columnOrder"},
        t \in BundleTasks, c \in BundleColumns, o \in BundleOrders}

\* A bundle lists only the keys it owns.
Normalised(b) ==
    Bundle(b.has,
           IF "tasks" \in b.has THEN b.tasks ELSE EmptyMap,
           IF "columns" \in b.has THEN b.columns ELSE EmptyMap,
           IF "columnOrder" \in b.has THEN b.columnOrder ELSE << >>)

LegacyValues ==
    {InvalidJson} \cup {FlatList(l) : l \in ItemLists(MaxRecords)}
                  \cup {Normalised(b) : b \in Bundles}

\* context.parameters as loadData reads them.  enableDragDrop is left at
\* its default (true, line 751): every render registers the drag handlers.
Context(dataSet, legacy) == [taskDataSet |-> dataSet, tasksData |-> legacy]

Contexts ==
    {Context(d, NoLegacy) : d \in ReadyDataSets}
    \cup {Context(DataSet(FALSE, <<Record(RecordIdAt(1), "", "A", sDone)>>), InvalidJson)}
    \cup {Context(NoDataSet, l) : l \in LegacyValues \cup {NoLegacy}}
    \cup {Context(d, l) : d \in UnreadyDataSets, l \in {NoLegacy, InvalidJson}}

(***************************************************************************)
(* The rendered board: what renderBoard puts in the DOM.                   *)
(***************************************************************************)
\* Lines 800-806: one tasks container (drop zone) per resolvable column.
\* A column listed twice in columnOrder is rendered twice, to the same effect.
DropZones(board) ==
    {board.columns[c].id : c \in {x \in Range(board.columnOrder) : Has(board.columns, x)}}

\* Lines 943-949: one card per listed id that resolves to a task; the card
\* carries data-task-id and sits in the container of its column.
Cards(board) ==
    UNION {{<<board.tasks[t].id, board.columns[c].id>> :
               t \in {x \in Range(board.columns[c].taskIds) : Has(board.tasks, x)}} :
           c \in {x \in Range(board.columnOrder) : Has(board.columns, x)}}

renderBoard(board) == [cards |-> Cards(board), zones |-> DropZones(board)]

(***************************************************************************)
(* State.                                                                  *)
(***************************************************************************)
VARIABLES
    phase,              \* "constructed" until init has run, then "ready"
    columnDefinitions,  \* _columnDefinitions
    boardData,          \* _boardData
    dom,                \* the cards and drop zones of the last render
    draggedElement,     \* _draggedElement: Null, "attached" or "detached"
    draggedTaskId,      \* _draggedTaskId
    sourceColumnId,     \* _sourceColumnId
    lastUpdatedTask,    \* _lastUpdatedTask
    pendingUpdate,      \* _pendingUpdate
    gesture,            \* the browser's drag gesture: "none", "dragging", "dropped"
    notifications,      \* calls of _notifyOutputChanged so far
    notifiedBoard,      \* the board as it was at the last such call
    lastOp,             \* the handler that ran last, with its inputs
    lastMove,           \* the last successful move, as moveTask made it
    probe,              \* the last direct call of a pure method, with its result
    otherBoard,         \* a second KanbanBoard instance on the same page
    host,               \* the host application: its store and what it has read
    steps               \* handlers run so far

vars == <<phase, columnDefinitions, boardData, dom, draggedElement,
          draggedTaskId, sourceColumnId, lastUpdatedTask, pendingUpdate, gesture,
          notifications, notifiedBoard, lastOp, lastMove, probe, otherBoard, host, steps>>

\* kind: the handler; path, ctx, threw: the load it made; taskId, source,
\* target, moved: the drag session it read and the move it made.
Op(kind, path, ctx, threw, taskId, source, target, moved) ==
    [kind |-> kind, path |-> path, ctx |-> ctx, threw |-> threw, taskId |-> taskId,
     source |-> source, target |-> target, moved |-> moved]

NoContext == Context(NoDataSet, NoLegacy)

\* The record of a move: the task, the status line 1647 gave it and the
\* title of the column it left.
Move(moved, taskId, newStatus, previousTitle) ==
    [moved |-> moved, taskId |-> taskId, newStatus |-> newStatus,
     previousTitle |-> previousTitle]

NoMove == Move(FALSE, Null, sEmpty, sEmpty)

\* A direct call: the method, its arguments and what it returned.
Probe(fn, defs, status, outcome) ==
    [fn |-> fn, defs |-> defs, status |-> status, outcome |-> outcome]

NoProbe == Probe("none", << >>, JsUndefined, Null)

\* Only the input the load path reads is part of the record of the load.
EffectiveContext(ctx) ==
    CASE LoadPath(ctx.taskDataSet, ctx.tasksData) = "dataset" ->
            Context(ctx.taskDataSet, NoLegacy)
      [] LoadPath(ctx.taskDataSet, ctx.tasksData) = "legacy" ->
            Context(NoDataSet, ctx.tasksData)
      [] OTHER -> NoContext

\* The fields of a second instance (lines 55-61) after its init() without
\* data: the sample board, rendered, and no drag in flight.
OtherInstance ==
    [boardData |-> getEmptyBoardDataWithSamples(getDefaultColumnDefinitions),
     dom |-> renderBoard(getEmptyBoardDataWithSamples(getDefaultColumnDefinitions)),
     draggedElement |-> Null, draggedTaskId |-> Null, sourceColumnId |-> Null,
     lastUpdatedTask |-> Null, notifications |-> 0]

\* The host's store maps a record id to the status it has persisted; read
\* is the number of notifications it has answered with a getOutputs call,
\* supplied whether it has delivered a snapshot yet, and lastColumn the
\* column each task was last dropped on.
HostAtStart ==
    [store |-> [r \in {RecordIdAt(i) : i \in 1..MaxRecords} |->
                    IF r = RecordIdAt(1) THEN sTodo ELSE sDone],
     read |-> 0, supplied |-> FALSE, lastColumn |-> EmptyMap]

\* The constructor (lines 164-166): _columnDefinitions is still empty.
Init ==
    /\ phase = "constructed"
    /\ columnDefinitions = << >>
    /\ boardData = getEmptyBoardData(<< >>)
    /\ dom = renderBoard(getEmptyBoardData(<< >>))
    /\ draggedElement = Null
    /\ draggedTaskId = Null
    /\ sourceColumnId = Null
    /\ lastUpdatedTask = Null
    /\ pendingUpdate = FALSE
    /\ gesture = "none"
    /\ notifications = 0
    /\ notifiedBoard = getEmptyBoardData(<< >>)
    /\ lastOp = Op("constructor", "", NoContext, FALSE, Null, Null, Null, FALSE)
    /\ lastMove = NoMove
    /\ probe = NoProbe
    /\ otherBoard = OtherInstance
    /\ host = HostAtStart
    /\ steps = 0

\* renderBoard replaces the DOM: an element being dragged is no longer in it.
AfterRender(el) == IF el = "attached" THEN "detached" ELSE el

\* A refresh that resets the drag session on its way.
RefreshClearingSession(kind, ctx) ==
    \E r \in {loadData(boardData, getDefaultColumnDefinitions,
                         ctx.taskDataSet, ctx.tasksData)} :
    /\ steps < MaxSteps
    /\ columnDefinitions' = getDefaultColumnDefinitions
    /\ boardData' = r.board
    /\ dom' = IF r.threw THEN dom ELSE renderBoard(r.board)
    /\ draggedElement' = Null
    /\ draggedTaskId' = Null
    /\ sourceColumnId' = Null
    /\ lastOp' = Op(kind, LoadPath(ctx.taskDataSet, ctx.tasksData),
                    EffectiveContext(ctx), r.threw, Null, Null, Null, FALSE)
    /\ steps' = steps + 1
    /\ UNCHANGED <<lastUpdatedTask, pendingUpdate,
                   gesture, notifications, notifiedBoard, lastMove, probe, otherBoard, host>>

\* updateColumnDefinitions ... loadData, renderBoard (lines 174-183, 200-210).
\* A load that throws leaves the handler before renderBoard.
Refresh(kind, ctx) ==
    \E r \in {loadData(boardData, getDefaultColumnDefinitions,
                         ctx.taskDataSet, ctx.tasksData)} :
    /\ steps < MaxSteps
    /\ columnDefinitions' = getDefaultColumnDefinitions
    /\ boardData' = r.board
    /\ dom' = IF r.threw THEN dom ELSE renderBoard(r.board)
    /\ draggedElement' = IF r.threw THEN draggedElement ELSE AfterRender(draggedElement)
    /\ lastOp' = Op(kind, LoadPath(ctx.taskDataSet, ctx.tasksData),
                    EffectiveContext(ctx), r.threw, Null, Null, Null, FALSE)
    /\ steps' = steps + 1
    /\ UNCHANGED <<draggedTaskId, sourceColumnId, lastUpdatedTask, pendingUpdate,
                   gesture, notifications, notifiedBoard, lastMove, probe, otherBoard, host>>

Initialize ==
    /\ phase = "constructed" /\ steps < MaxSteps
    /\ phase' = "ready"
    /\ \E ctx \in Contexts : Refresh("init", ctx)

UpdateView ==
    /\ phase = "ready" /\ steps < MaxSteps
    /\ phase' = phase
    /\ \E ctx \in Contexts : Refresh("updateView", ctx)

\* A dragstart that also marks the dragged task as pending.
DragStartMarkingPending ==
    /\ phase = "ready" /\ steps < MaxSteps
    /\ gesture = "none"
    /\ \E card \in dom.cards :
          /\ draggedElement' = "attached"
          /\ draggedTaskId' = card[1]
          /\ sourceColumnId' = card[2]
          /\ boardData' = [boardData EXCEPT !.tasks[card[1]].isOptimistic = OptTrue]
          /\ lastOp' = Op("dragstart", "", NoContext, FALSE, card[1], card[2], Null, FALSE)
    /\ gesture' = "dragging"
    /\ steps' = steps + 1
    /\ UNCHANGED <<phase, columnDefinitions, dom, lastUpdatedTask,
                   pendingUpdate, notifications, notifiedBoard, lastMove, probe, otherBoard, host>>

\* dragstart on a rendered card (lines 2147-2164).
DragStart ==
    /\ phase = "ready" /\ steps < MaxSteps
    /\ gesture = "none"
    /\ \E card \in dom.cards :
          /\ draggedElement' = "attached"
          /\ draggedTaskId' = card[1]
          /\ sourceColumnId' = card[2]
          /\ lastOp' = Op("dragstart", "", NoContext, FALSE, card[1], card[2], Null, FALSE)
    /\ gesture' = "dragging"
    /\ steps' = steps + 1
    /\ UNCHANGED <<phase, columnDefinitions, boardData, dom, lastUpdatedTask,
                   pendingUpdate, notifications, notifiedBoard, lastMove, probe, otherBoard, host>>

\* A drop that moves whenever the session holds a task and a source column
\* and everything resolves, the target being the source column or not.
DropOutcomeAnyTarget(board, taskId, sourceCol, targetColumnId) ==
    IF /\ taskId # Null /\ sourceCol # Null
       /\ Has(board.columns, sourceCol) /\ Has(board.columns, targetColumnId)
       /\ Has(board.tasks, taskId)
    THEN LET after == MoveMutation(board, taskId, sourceCol, targetColumnId)
         IN [board |-> after, moved |-> TRUE, seen |-> after]
    ELSE [board |-> board, moved |-> FALSE, seen |-> board]

\* Lines 2206-2223: the session is read, the drop is ignored without a task
\* id or a source column or on the source column, else moveTask is called.
DropOutcome(board, taskId, sourceCol, targetColumnId) ==
    IF taskId # Null /\ sourceCol # Null /\ sourceCol # targetColumnId
    THEN moveTask(board, taskId, sourceCol, targetColumnId)
    ELSE [board |-> board, moved |-> FALSE, seen |-> board]

\* The drop listener of a tasks container (lines 2201-2224), then moveTask.
DropHandler(targetColumnId) ==
    LET taskId == draggedTaskId
        sourceCol == sourceColumnId
        r == DropOutcome(boardData, taskId, sourceCol, targetColumnId)
    IN /\ boardData' = r.board
       /\ dom' = IF r.moved THEN renderBoard(r.board) ELSE dom
       /\ draggedElement' = IF r.moved THEN AfterRender(draggedElement) ELSE draggedElement
       /\ lastUpdatedTask' = IF r.moved THEN taskId ELSE lastUpdatedTask
       /\ pendingUpdate' = (r.moved \/ pendingUpdate)
       /\ notifications' = IF r.moved THEN notifications + 1 ELSE notifications
       /\ notifiedBoard' = IF r.moved THEN r.seen ELSE notifiedBoard
       /\ lastOp' = Op("drop", "", NoContext, FALSE, taskId, sourceCol, targetColumnId, r.moved)
       /\ lastMove' = IF r.moved
                      THEN Move(TRUE, taskId, TargetStatus(boardData.columns[targetColumnId]),
                                boardData.columns[sourceCol].title)
                      ELSE lastMove
       /\ steps' = steps + 1
       /\ UNCHANGED <<phase, columnDefinitions, draggedTaskId, sourceColumnId, probe, otherBoard, host>>

\* The user drops the dragged card on a column.
Drop ==
    /\ phase = "ready" /\ steps < MaxSteps
    /\ gesture = "dragging"
    /\ gesture' = "dropped"
    /\ \E target \in dom.zones : DropHandler(target)

\* Something that is not a card (a file, a text selection) is dropped on a
\* column while no card gesture is in flight.
ForeignDrop ==
    /\ phase = "ready" /\ steps < MaxSteps
    /\ gesture = "none"
    /\ gesture' = gesture
    /\ \E target \in dom.zones : DropHandler(target)

\* dragend delivered to the dragged card (lines 2166-2175).
DragEnd ==
    /\ phase = "ready" /\ steps < MaxSteps
    /\ gesture # "none"
    /\ gesture' = "none"
    /\ draggedElement' = Null
    /\ draggedTaskId' = Null
    /\ sourceColumnId' = Null
    /\ lastOp' = Op("dragend", "", NoContext, FALSE, draggedTaskId, sourceColumnId, Null, FALSE)
    /\ steps' = steps + 1
    /\ UNCHANGED <<phase, columnDefinitions, boardData, dom, lastUpdatedTask,
                   pendingUpdate, notifications, notifiedBoard, lastMove, probe, otherBoard, host>>

\* The gesture ends but the card it started on has been removed from the
\* document by a render, and the browser delivers no dragend to it.
DragEndLost ==
    /\ phase = "ready" /\ steps < MaxSteps
    /\ gesture # "none" /\ draggedElement = "detached"
    /\ gesture' = "none"
    /\ lastOp' = Op("dragendLost", "", NoContext, FALSE, draggedTaskId, sourceColumnId, Null, FALSE)
    /\ steps' = steps + 1
    /\ UNCHANGED <<phase, columnDefinitions, boardData, dom, draggedElement,
                   draggedTaskId, sourceColumnId, lastUpdatedTask, pendingUpdate,
                   notifications, notifiedBoard, lastMove, probe, otherBoard, host>>

Next ==
    \/ Initialize
    \/ UpdateView
    \/ DragStart
    \/ Drop
    \/ ForeignDrop
    \/ DragEnd
    \/ DragEndLost

Spec == Init /\ [][Next]_vars

\* The handlers when the host never supplies a legacy bundle object: every
\* load is a dataset load, a flat-list load or the sample board.
NoBundleRead == lastOp'.ctx.tasksData.kind # "object"

NextWithoutBundle ==
    \/ Initialize /\ NoBundleRead
    \/ UpdateView /\ NoBundleRead
    \/ DragStart
    \/ Drop
    \/ ForeignDrop
    \/ DragEnd
    \/ DragEndLost

SpecWithoutBundle == Init /\ [][NextWithoutBundle]_vars

(***************************************************************************)
(* Two instances on one page.  The browser runs one drag gesture at a time *)
(* ("otherDragging", "otherDropped": it started on a card of the second    *)
(* instance); each instance's listeners read that instance's own fields.   *)
(***************************************************************************)
firstBoardVars == <<phase, columnDefinitions, boardData, dom, draggedElement,
                    draggedTaskId, sourceColumnId, lastUpdatedTask, pendingUpdate,
                    notifications, notifiedBoard, lastMove, probe, host>>

\* dragstart on a card of the second instance (lines 2147-2164).
OtherDragStart ==
    /\ phase = "ready" /\ steps < MaxSteps
    /\ gesture = "none"
    /\ \E card \in otherBoard.dom.cards :
          /\ otherBoard' = [otherBoard EXCEPT !.draggedElement = "attached",
                                              !.draggedTaskId = card[1],
                                              !.sourceColumnId = card[2]]
          /\ lastOp' = Op("otherDragstart", "", NoContext, FALSE, card[1], card[2], Null, FALSE)
    /\ gesture' = "otherDragging"
    /\ steps' = steps + 1
    /\ UNCHANGED firstBoardVars

\* The dragged card, of either instance, is dropped on a column of the
\* second instance: its drop listener (lines 2201-2224), then its moveTask.
DropOnOther ==
    /\ phase = "ready" /\ steps < MaxSteps
    /\ gesture \in {"dragging", "otherDragging"}
    /\ gesture' = IF gesture = "dragging" THEN "dropped" ELSE "otherDropped"
    /\ \E target \in otherBoard.dom.zones :
          \E r \in {DropOutcome(otherBoard.boardData, otherBoard.draggedTaskId,
                                 otherBoard.sourceColumnId, target)} :
          /\ otherBoard' =
                [otherBoard EXCEPT
                    !.boardData = r.board,
                    !.dom = IF r.moved THEN renderBoard(r.board) ELSE @,
                    !.draggedElement = IF r.moved THEN AfterRender(@) ELSE @,
                    !.lastUpdatedTask = IF r.moved THEN otherBoard.draggedTaskId ELSE @,
                    !.notifications = IF r.moved THEN @ + 1 ELSE @]
          /\ lastOp' = Op("otherDrop", "", NoContext, FALSE, otherBoard.draggedTaskId,
                          otherBoard.sourceColumnId, target, r.moved)
    /\ steps' = steps + 1
    /\ UNCHANGED firstBoardVars

\* A card of the second instance is dropped on a column of the first.
DropFromOther ==
    /\ phase = "ready" /\ steps < MaxSteps
    /\ gesture = "otherDragging"
    /\ gesture' = "otherDropped"
    /\ \E target \in dom.zones : DropHandler(target)

\* dragend delivered to the dragged card of the second instance
\* (lines 2166-2175).
OtherDragEnd ==
    /\ phase = "ready" /\ steps < MaxSteps
    /\ gesture \in {"otherDragging", "otherDropped"}
    /\ gesture' = "none"
    /\ otherBoard' = [otherBoard EXCEPT !.draggedElement = Null,
                                        !.draggedTaskId = Null,
                                        !.sourceColumnId = Null]
    /\ lastOp' = Op("otherDragend", "", NoContext, FALSE, otherBoard.draggedTaskId,
                    otherBoard.sourceColumnId, Null, FALSE)
    /\ steps' = steps + 1
    /\ UNCHANGED firstBoardVars

\* Both instances start on the sample board; the first one's listeners are
\* the actions of Next.
NextPage ==
    \/ Initialize /\ lastOp'.path = "samples"
    \/ DragStart
    \/ Drop
    \/ DragEnd /\ gesture \in {"dragging", "dropped"}
    \/ DragEndLost /\ gesture \in {"dragging", "dropped"}
    \/ OtherDragStart
    \/ DropOnOther
    \/ DropFromOther
    \/ OtherDragEnd

SpecPage == Init /\ [][NextPage]_vars

(***************************************************************************)
(* The control with its host: every notification is answered by a          *)
(* getOutputs call, the reported status is persisted against the reported  *)
(* record, and the store comes back as the dataset of an updateView.  The   *)
(* handlers of this loop are not counted in steps: the loop runs for ever.  *)
(***************************************************************************)
\* The dataset the host builds from its store, one record per entry.
SnapshotOf(store) ==
    DataSet(FALSE, [i \in 1..MaxRecords |-> Record(RecordIdAt(i), "", "A", store[RecordIdAt(i)])])

controlRest == <<phase, draggedTaskId, sourceColumnId, gesture, probe, otherBoard, steps>>

\* updateView (lines 196-211) with the host's current snapshot.
HostSupply ==
    /\ phase = "ready"
    /\ \E r \in {loadData(boardData, getDefaultColumnDefinitions,
                           SnapshotOf(host.store), NoLegacy)} :
          /\ columnDefinitions' = getDefaultColumnDefinitions
          /\ boardData' = r.board
          /\ dom' = IF r.threw THEN dom ELSE renderBoard(r.board)
          /\ draggedElement' = IF r.threw THEN draggedElement ELSE AfterRender(draggedElement)
          /\ lastOp' = Op("updateView", "dataset", NoContext, r.threw, Null, Null, Null, FALSE)
    /\ host' = [host EXCEPT !.supplied = TRUE]
    /\ UNCHANGED <<lastUpdatedTask, pendingUpdate, notifications, notifiedBoard, lastMove>>
    /\ UNCHANGED controlRest

\* One whole gesture on a board loaded from the store: dragstart on a card
\* (lines 2147-2164), drop on another column (lines 2201-2224, moveTask),
\* dragend (lines 2166-2175).
UserMove ==
    /\ phase = "ready" /\ host.supplied
    /\ notifications < MaxMoves
    /\ gesture = "none"
    /\ \E card \in dom.cards, target \in dom.zones :
          \E r \in {DropOutcome(boardData, card[1], card[2], target)} :
          /\ r.moved
          /\ boardData' = r.board
          /\ dom' = renderBoard(r.board)
          /\ lastUpdatedTask' = card[1]
          /\ notifiedBoard' = r.seen
          /\ lastOp' = Op("dragend", "", NoContext, FALSE, card[1], card[2], target, TRUE)
          /\ lastMove' = Move(TRUE, card[1], TargetStatus(boardData.columns[target]),
                              boardData.columns[card[2]].title)
          /\ host' = [host EXCEPT !.lastColumn = Put(@, card[1], target)]
    /\ pendingUpdate' = TRUE
    /\ notifications' = notifications + 1
    /\ draggedElement' = Null
    /\ UNCHANGED <<columnDefinitions>>
    /\ UNCHANGED controlRest

\* The host answers the notifications it has not answered yet: it calls
\* getOutputs (lines 1662-1676) once and persists lastMovedTask.newStatus
\* against lastMovedTask.taskId.
HostRead ==
    /\ phase = "ready"
    /\ host.read < notifications
    /\ \E ev \in {getOutputs(boardData, lastUpdatedTask, sourceColumnId)} :
          host' = [host EXCEPT
                      !.read = notifications,
                      !.store = IF ev.kind = "event" /\ ev.taskId \in DOMAIN @
                                THEN [@ EXCEPT ![ev.taskId] = ev.newStatus]
                                ELSE @]
    /\ UNCHANGED <<columnDefinitions, boardData, dom, draggedElement, lastUpdatedTask,
                   pendingUpdate, notifications, notifiedBoard, lastOp, lastMove>>
    /\ UNCHANGED controlRest

NextHost ==
    \/ Initialize /\ lastOp'.path = "samples"
    \/ HostSupply
    \/ UserMove
    \/ HostRead

\* ENABLED <<HostSupply>>_vars written as a state predicate: an updateView
\* with the host's snapshot would change something.
SupplyChanges ==
    /\ phase = "ready"
    /\ \E r \in {loadData(boardData, getDefaultColumnDefinitions,
                           SnapshotOf(host.store), NoLegacy)} :
          \/ columnDefinitions # getDefaultColumnDefinitions
          \/ boardData # r.board
          \/ dom # (IF r.threw THEN dom ELSE renderBoard(r.board))
          \/ draggedElement # (IF r.threw THEN draggedElement ELSE AfterRender(draggedElement))
          \/ lastOp # Op("updateView", "dataset", NoContext, r.threw, Null, Null, Null, FALSE)
          \/ ~host.supplied

\* The framework delivers every pending getOutputs call (weak fairness of
\* HostRead) and the host keeps refreshing the control from its store (weak
\* fairness of HostSupply, with its enabling condition spelled out).
SpecHost ==
    /\ Init /\ [][NextHost]_vars
    /\ WF_vars(HostRead)
    /\ ([]<>(~SupplyChanges) \/ []<><<HostSupply>>_vars)

(***************************************************************************)
(* The pure methods called on their own: getColumnIdByStatus and           *)
(* getEmptyBoardData read nothing but _columnDefinitions and their         *)
(* argument.  Each behaviour makes one call.                               *)
(***************************************************************************)
\* Column definitions a configuration can hold: ids are distinct, an alias
\* can be accepted by two columns, a column can have no alias, and a
\* definition can carry a color.
DefinitionPool ==
    { ColumnDefinition("todo", sToDoTitle, <<sTodo, sNew, sOpen>>),
      ColumnDefinition("done", sDone, <<sDone, sCompleted, sClosed>>),
      [ColumnDefinition("alt", sXTitle, <<sCompleted, sDoneLower>>) EXCEPT !.color = "#0078d4"],
      ColumnDefinition("bare", sXTitle, << >>) }

RECURSIVE DefinitionListsOfLen(_)
DefinitionListsOfLen(n) ==
    IF n = 0 THEN {<< >>}
    ELSE {Append(l, d) : l \in DefinitionListsOfLen(n - 1), d \in DefinitionPool}

DefinitionLists ==
    {l \in UNION {DefinitionListsOfLen(n) : n \in 0..MaxDefs} :
        \A i, j \in 1..Len(l) : l[i].id = l[j].id => i = j}

StatusTexts == {sEmpty, sUnknown, sVal, sTodo, sNew, sDone, sDoneLower, sDoneUpper}

StatusValues == {JsString(s) : s \in StatusTexts} \cup {JsUndefined}

programVars == <<phase, columnDefinitions, boardData, dom, draggedElement,
                 draggedTaskId, sourceColumnId, lastUpdatedTask, pendingUpdate,
                 gesture, notifications, notifiedBoard, lastOp, lastMove,
                 otherBoard, host, steps>>

\* getColumnIdByStatus(status) with _columnDefinitions = defs.
Classify ==
    /\ probe = NoProbe
    /\ \E defs \in DefinitionLists, status \in StatusValues :
          probe' = Probe("getColumnIdByStatus", defs, status,
                         callGetColumnIdByStatus(defs, status))
    /\ UNCHANGED programVars

\* getEmptyBoardData() with _columnDefinitions = defs.
BuildBoard ==
    /\ probe = NoProbe
    /\ \E defs \in DefinitionLists :
          probe' = Probe("getEmptyBoardData", defs, JsUndefined, getEmptyBoardData(defs))
    /\ UNCHANGED programVars

\* The boards a control holds after init(), and after init() and one
\* updateView() that loads a dataset.
BoardsAfterInit ==
    {loadData(getEmptyBoardData(<< >>), getDefaultColumnDefinitions,
              ctx.taskDataSet, ctx.tasksData).board : ctx \in Contexts}

BoardsAfterRefresh ==
    {loadData(b, getDefaultColumnDefinitions, ds, NoLegacy).board :
        b \in BoardsAfterInit, ds \in ReadyDataSets}

StartBoards == {getEmptyBoardData(<< >>)} \cup BoardsAfterInit \cup BoardsAfterRefresh

\* loadData() run twice in a row on the same ready dataset, from a board the
\* control can hold.
LoadTwice ==
    /\ probe = NoProbe
    /\ \E start \in StartBoards, ds \in ReadyDataSets :
          \E first \in {loadData(start, getDefaultColumnDefinitions, ds, NoLegacy)} :
          \E second \in {loadData(first.board, getDefaultColumnDefinitions, ds, NoLegacy)} :
              probe' = Probe("loadData", getDefaultColumnDefinitions, JsUndefined,
                             [start |-> start, dataSet |-> ds,
                              first |-> first, second |-> second])
    /\ UNCHANGED programVars

\* Line 524: the task id a record resolves to.
RecordTaskId(r) == OrElseStr(r.id, r.recordId)

\* The ids the tasks of a snapshot can carry.
SnapshotTaskIds == {"task-1"} \cup {RecordIdAt(i) : i \in 1..MaxRecords}

\* The board and the snapshot with everything about other task ids removed.
OnlyTask(board, t) ==
    BoardData([k \in DOMAIN board.tasks \cap {t} |-> board.tasks[k]],
              board.columns, board.columnOrder)

OnlyRecordsOf(dataSet, t) ==
    [dataSet EXCEPT !.records = SelectSeq(@, LAMBDA r : RecordTaskId(r) = t)]

\* loadFromDataset() run on a board the control can hold and a ready
\* dataset, and run again on the same board and dataset stripped of every
\* task id but one.
LoadPair ==
    /\ probe = NoProbe
    /\ \E start \in StartBoards, ds \in ReadyDataSets, t \in SnapshotTaskIds :
          probe' = Probe("loadFromDataset", getDefaultColumnDefinitions, JsUndefined,
                         [start |-> start, dataSet |-> ds, taskId |-> t,
                          full |-> loadFromDataset(start, getDefaultColumnDefinitions, ds),
                          alone |-> loadFromDataset(OnlyTask(start, t),
                                                    getDefaultColumnDefinitions,
                                                    OnlyRecordsOf(ds, t))])
    /\ UNCHANGED programVars

NextPure ==
    \/ Classify
    \/ BuildBoard
    \/ LoadTwice
    \/ LoadPair

SpecPure == Init /\ [][NextPure]_vars

(***************************************************************************)
(* Properties.                                                             *)
(***************************************************************************)
IsRefresh(op) == op.kind \in {"init", "updateView"}

\* The places (column, index) at which a task id is listed.
Positions(board, t) ==
    UNION {{<<c, i>> : i \in {j \in 1..Len(board.columns[c].taskIds) :
                                 board.columns[c].taskIds[j] = t}} :
           c \in DOMAIN board.columns}

ListedIds(board) == UNION {Range(board.columns[c].taskIds) : c \in DOMAIN board.columns}

\* C1: every task id listed by a column is a key of the task map.
NoDanglingIds == ListedIds(boardData) \subseteq DOMAIN boardData.tasks

\* C2: a task id is listed by at most one column, and at most once there.
UniquePlacement == \A t \in ListedIds(boardData) : Cardinality(Positions(boardData, t)) <= 1

\* C3: columnOrder is the key set of the columns map, each key once.
ColumnOrderIsKeySet ==
    /\ Range(boardData.columnOrder) = DOMAIN boardData.columns
    /\ Cardinality(Range(boardData.columnOrder)) = Len(boardData.columnOrder)

\* C4: a refresh never changes the status of a task that is optimistic
\* when the refresh starts.
OptimisticStatusProtected ==
    [][\A t \in DOMAIN boardData.tasks :
          (/\ steps' = steps + 1
           /\ IsRefresh(lastOp')
           /\ boardData.tasks[t].isOptimistic = OptTrue
           /\ t \in DOMAIN boardData'.tasks)
          => boardData'.tasks[t].status = boardData.tasks[t].status]_vars

\* The task id a dataset record is loaded under (line 533).
TaskIdOf(r) == OrElseStr(r.id, r.recordId)

\* The status a dataset record is loaded with (lines 535, 547).
IncomingStatus(r) == OrElse(r.status, sUnknown)

\* The step is a refresh that took the dataset path.
DatasetLoadStep == steps' = steps + 1 /\ IsRefresh(lastOp') /\ lastOp'.path = "dataset"

\* The snapshot that refresh read.
Incoming == lastOp'.ctx.taskDataSet.records

\* The snapshot holds record i for task t and no other record for t.
OnlyRecordFor(t, i) == {j \in 1..Len(Incoming) : TaskIdOf(Incoming[j]) = t} = {i}

WasOptimistic(t) == Has(boardData.tasks, t) /\ boardData.tasks[t].isOptimistic = OptTrue

\* Task t is listed in the column the definitions classify the status to.
ListedInColumnOf(board, defs, t, status) ==
    LET c == getColumnIdByStatus(defs, status) IN
    Has(board.columns, c) /\ t \in Range(board.columns[c].taskIds)

\* C5: a dataset load whose record for an optimistic task carries another
\* status than the local one keeps the local status and the flag, and lists
\* the task in the column of the local status.
StaleSnapshotKeepsLocalMove ==
    [][DatasetLoadStep =>
        \A i \in 1..Len(Incoming) :
            LET t == TaskIdOf(Incoming[i]) IN
            (/\ OnlyRecordFor(t, i)
             /\ WasOptimistic(t)
             /\ IncomingStatus(Incoming[i]) # boardData.tasks[t].status)
            => /\ Has(boardData'.tasks, t)
               /\ boardData'.tasks[t].status = boardData.tasks[t].status
               /\ boardData'.tasks[t].isOptimistic = OptTrue
               /\ ListedInColumnOf(boardData', columnDefinitions', t,
                                   boardData.tasks[t].status)]_vars

\* C6: a dataset load whose record for an optimistic task carries the local
\* status adopts the incoming task and clears the flag.
ConvergenceClearsFlag ==
    [][DatasetLoadStep =>
        \A i \in 1..Len(Incoming) :
            LET t == TaskIdOf(Incoming[i]) IN
            (/\ OnlyRecordFor(t, i)
             /\ WasOptimistic(t)
             /\ IncomingStatus(Incoming[i]) = boardData.tasks[t].status)
            => /\ Has(boardData'.tasks, t)
               /\ boardData'.tasks[t] =
                    Task(t, OrElseStr(Incoming[i].title, "Untitled"),
                         IncomingStatus(Incoming[i]), Incoming[i].recordId, OptFalse)]_vars

\* C7: a dataset load whose record is for a task that is absent or not
\* optimistic adopts the incoming status, lists the task in the column of
\* that status and leaves it not optimistic.
IncomingWinsOutright ==
    [][DatasetLoadStep =>
        \A i \in 1..Len(Incoming) :
            LET t == TaskIdOf(Incoming[i]) IN
            (OnlyRecordFor(t, i) /\ ~WasOptimistic(t))
            => /\ Has(boardData'.tasks, t)
               /\ boardData'.tasks[t].status = IncomingStatus(Incoming[i])
               /\ boardData'.tasks[t].isOptimistic # OptTrue
               /\ ListedInColumnOf(boardData', columnDefinitions', t,
                                   IncomingStatus(Incoming[i]))]_vars

\* The step is a drop handled by a tasks container.
DropStep == steps' = steps + 1 /\ lastOp'.kind = "drop"

\* The drop reaches moveTask with a move it can make: the session holds a
\* task and a source column other than the target, and all three resolve.
MoveIsDue ==
    /\ draggedTaskId # Null /\ sourceColumnId # Null
    /\ sourceColumnId # lastOp'.target
    /\ sourceColumnId \in DOMAIN boardData.columns
    /\ lastOp'.target \in DOMAIN boardData.columns
    /\ draggedTaskId \in DOMAIN boardData.tasks

\* after is before without the first occurrence of t.
IsWithoutFirst(before, after, t) ==
    LET at == {i \in 1..Len(before) : before[i] = t} IN
    IF at = {} THEN after = before
    ELSE LET k == CHOOSE i \in at : \A j \in at : i <= j IN
         /\ Len(after) = Len(before) - 1
         /\ \A i \in 1..Len(after) : after[i] = IF i < k THEN before[i] ELSE before[i + 1]

\* after is before with t added at the end.
IsWithLast(before, after, t) ==
    /\ Len(after) = Len(before) + 1
    /\ after[Len(after)] = t
    /\ \A i \in 1..Len(before) : after[i] = before[i]

\* The status a move into the column sets: its first alias, or its title.
FirstAliasOrTitle(column) ==
    IF column.statusValues # << >> /\ column.statusValues[1] # sEmpty
    THEN column.statusValues[1] ELSE column.title

\* C8: a move that is due takes the first occurrence of the task out of the
\* source list, puts the task last in the target list, sets its status to
\* the target's first alias (its title when it has none) and marks it
\* optimistic.
MoveEffect ==
    [][(DropStep /\ MoveIsDue) =>
        LET t == draggedTaskId
            src == sourceColumnId
            tgt == lastOp'.target
        IN /\ IsWithoutFirst(boardData.columns[src].taskIds,
                             boardData'.columns[src].taskIds, t)
           /\ IsWithLast(boardData.columns[tgt].taskIds,
                         boardData'.columns[tgt].taskIds, t)
           /\ boardData'.tasks[t].status = FirstAliasOrTitle(boardData.columns[tgt])
           /\ boardData'.tasks[t].isOptimistic = OptTrue]_vars

\* A task has been moved to the end of a column that already listed others.
MoveEffectWitness ==
    /\ lastOp.kind = "drop" /\ lastOp.moved
    /\ Len(boardData.columns[lastOp.target].taskIds) > 1
    /\ boardData.columns[lastOp.target].taskIds[Len(boardData.columns[lastOp.target].taskIds)]
          = lastOp.taskId
    /\ lastOp.taskId \notin Range(boardData.columns[lastOp.source].taskIds)
    /\ boardData.tasks[lastOp.taskId].isOptimistic = OptTrue

\* C9: a drop whose move is not due (same column, or the source column, the
\* target column or the task does not resolve) leaves the board as it was
\* and raises no notification.
NoOpMove ==
    [][(DropStep /\ ~MoveIsDue) =>
        /\ boardData' = boardData
        /\ notifications' = notifications
        /\ lastUpdatedTask' = lastUpdatedTask]_vars

\* moveTask was called for a task the board no longer holds, and refused.
NoOpMoveWitness ==
    /\ lastOp.kind = "drop" /\ ~lastOp.moved
    /\ lastOp.taskId # Null /\ lastOp.source # Null
    /\ lastOp.source # lastOp.target
    /\ lastOp.source \in DOMAIN boardData.columns
    /\ lastOp.target \in DOMAIN boardData.columns
    /\ lastOp.taskId \notin DOMAIN boardData.tasks

\* C10: a move that is due raises one notification, and the board it shows
\* is the board after the mutation; no other handler raises any.
OneNotificationAfterMutation ==
    [][steps' = steps + 1 =>
        IF DropStep /\ MoveIsDue
        THEN /\ notifications' = notifications + 1
             /\ notifiedBoard' = boardData'
             /\ notifiedBoard'.tasks[draggedTaskId].isOptimistic = OptTrue
             /\ IsWithLast(boardData.columns[lastOp'.target].taskIds,
                           notifiedBoard'.columns[lastOp'.target].taskIds, draggedTaskId)
             /\ IsWithoutFirst(boardData.columns[sourceColumnId].taskIds,
                               notifiedBoard'.columns[sourceColumnId].taskIds,
                               draggedTaskId)
             /\ notifiedBoard'.tasks[draggedTaskId].status =
                  FirstAliasOrTitle(boardData.columns[lastOp'.target])
        ELSE notifications' = notifications /\ notifiedBoard' = notifiedBoard]_vars

\* The first notification has been raised, by a drop, and showed the task
\* moved and optimistic.
OneNotificationWitness ==
    /\ notifications = 1
    /\ lastOp.kind = "drop" /\ lastOp.moved
    /\ notifiedBoard = boardData
    /\ notifiedBoard.tasks[lastOp.taskId].isOptimistic = OptTrue
    /\ lastOp.taskId \in Range(notifiedBoard.columns[lastOp.target].taskIds)

\* The change event a host reading the outputs in this state receives.
ChangeEvent == getOutputs(boardData, lastUpdatedTask, sourceColumnId)

\* C11: after a successful move the change event names the moved task by
\* its recordId, or by its id when it has none, and its newStatus is the
\* status that move set, whatever was processed since the notification.
EventNamesMoveAndStatus ==
    lastMove.moved =>
        /\ ChangeEvent.kind = "event"
        /\ Has(boardData.tasks, lastMove.taskId)
        /\ ChangeEvent.taskId = OrElseStr(boardData.tasks[lastMove.taskId].recordId,
                                          lastMove.taskId)
        /\ ChangeEvent.newStatus = lastMove.newStatus

\* C12: after a successful move the change event carries the title of the
\* column the task left as previousStatus; a host that would have read that
\* title before dragend reads the same title after dragend.
EventCarriesPreviousColumn ==
    [][(/\ steps' = steps + 1
        /\ lastOp'.kind = "dragend"
        /\ lastMove.moved
        /\ ChangeEvent.kind = "event"
        /\ ChangeEvent.previousStatus = lastMove.previousTitle)
       => (/\ ChangeEvent'.kind = "event"
           /\ ChangeEvent'.previousStatus = lastMove.previousTitle)]_vars

\* Two strings are equal when letter case is ignored.
SameIgnoringCase(a, b) ==
    /\ Len(a) = Len(b)
    /\ \A i \in 1..Len(a) :
          \/ a[i] = b[i]
          \/ a[i] \in 65..90 /\ b[i] = a[i] + 32
          \/ b[i] \in 65..90 /\ a[i] = b[i] + 32

\* The definitions, by index, one of whose aliases is the status ignoring case.
MatchingDefinitions(defs, text) ==
    {i \in 1..Len(defs) :
        \E j \in 1..Len(defs[i].statusValues) :
            SameIgnoringCase(defs[i].statusValues[j], text)}

IsClassifyCall == probe.fn = "getColumnIdByStatus"

\* C13: on a status string getColumnIdByStatus returns the id of the first
\* definition, in configured order, one of whose aliases equals the status
\* ignoring letter case, and gives every status that differs from it only in
\* letter case the same column.
ClassifyFirstMatchIgnoringCase ==
    (IsClassifyCall /\ probe.status.defined) =>
        LET m == MatchingDefinitions(probe.defs, probe.status.text) IN
        /\ ~probe.outcome.raises
        /\ m # {} =>
              probe.outcome.columnId =
                  probe.defs[CHOOSE i \in m : \A k \in m : i <= k].id
        /\ \A other \in StatusTexts :
              SameIgnoringCase(other, probe.status.text) =>
                  callGetColumnIdByStatus(probe.defs, JsString(other)) = probe.outcome

\* 'DONE' is accepted by two columns through aliases written 'done' and
\* 'Done'; the one configured first is returned.
ClassifyWitness ==
    /\ IsClassifyCall
    /\ probe.status = JsString(sDoneUpper)
    /\ Len(probe.defs) = 3
    /\ probe.defs[1].id = "bare" /\ probe.defs[2].id = "alt" /\ probe.defs[3].id = "done"
    /\ probe.outcome = [raises |-> FALSE, columnId |-> "alt"]

\* C14: getColumnIdByStatus never raises on a status a task can carry; a
\* status matching no definition gives the first definition, and with no
\* definition at all the result is null.
ClassifyIsTotal ==
    IsClassifyCall =>
        /\ ~probe.outcome.raises
        /\ Len(probe.defs) = 0 => probe.outcome.columnId = Null
        /\ (/\ Len(probe.defs) > 0
            /\ (~probe.status.defined
                  \/ MatchingDefinitions(probe.defs, probe.status.text) = {}))
              => probe.outcome.columnId = probe.defs[1].id

\* C20: getEmptyBoardData returns an empty task map, one column per
\* definition with that definition's id, title, aliases and color and an
\* empty task list, and columnOrder equal to the definition ids in order.
BuildBoardShape ==
    probe.fn = "getEmptyBoardData" =>
        LET board == probe.outcome
            defs == probe.defs
        IN /\ DOMAIN board.tasks = {}
           /\ DOMAIN board.columns = {defs[i].id : i \in 1..Len(defs)}
           /\ Cardinality(DOMAIN board.columns) = Len(defs)
           /\ \A i \in 1..Len(defs) :
                 board.columns[defs[i].id] =
                     [id |-> defs[i].id, title |-> defs[i].title, taskIds |-> << >>,
                      statusValues |-> defs[i].statusValues, color |-> defs[i].color]
           /\ board.columnOrder = [i \in 1..Len(defs) |-> defs[i].id]

BuildBoardWitness ==
    /\ probe.fn = "getEmptyBoardData"
    /\ Len(probe.defs) = 3
    /\ probe.defs[1].id = "done" /\ probe.defs[2].id = "alt" /\ probe.defs[3].id = "todo"
    /\ probe.outcome.columns["alt"].color # NoColor
    /\ probe.outcome.columnOrder = <<"done", "alt", "todo">>

\* C15: a drop changes the board or raises a notification only when the
\* session holds a task and a source column other than the target; a drop
\* with an idle session, or on the recorded source column, changes neither.
DropNeedsSessionAndOtherColumn ==
    [][DropStep =>
          /\ (boardData' # boardData \/ notifications' # notifications) =>
                (/\ draggedTaskId # Null /\ sourceColumnId # Null
                 /\ sourceColumnId # lastOp'.target)
          /\ (draggedTaskId = Null \/ sourceColumnId = Null
                  \/ sourceColumnId = lastOp'.target) =>
                (/\ boardData' = boardData
                 /\ notifications' = notifications
                 /\ pendingUpdate' = pendingUpdate
                 /\ lastUpdatedTask' = lastUpdatedTask)]_vars

\* A card that is not the last of its column was dropped on its own column.
DropOnSourceWitness ==
    /\ lastOp.kind = "drop" /\ ~lastOp.moved
    /\ lastOp.taskId # Null
    /\ lastOp.source = lastOp.target
    /\ lastOp.source \in DOMAIN boardData.columns
    /\ lastOp.taskId \in DOMAIN boardData.tasks
    /\ Len(boardData.columns[lastOp.source].taskIds) > 1
    /\ boardData.columns[lastOp.source].taskIds[1] = lastOp.taskId
    /\ notifications = 0

\* C16: once the drag gesture is over, whichever way it ended, the session
\* is idle: it holds no task id, no source column and no element.
SessionIdleWhenGestureOver ==
    gesture = "none" =>
        /\ draggedTaskId = Null
        /\ sourceColumnId = Null
        /\ draggedElement = Null

HasOptimisticTask(board) ==
    \E id \in DOMAIN board.tasks : board.tasks[id].isOptimistic = OptTrue

\* C17: from a board with no optimistic task, loading the same record
\* collection a second time leaves the board the first load produced.
LoadIsIdempotent ==
    (probe.fn = "loadData" /\ ~HasOptimisticTask(probe.outcome.start)) =>
        /\ probe.outcome.second.board = probe.outcome.first.board
        /\ probe.outcome.second.threw = probe.outcome.first.threw

\* Two records were loaded twice over a board that held other tasks.
LoadTwiceWitness ==
    /\ probe.fn = "loadData"
    /\ ~HasOptimisticTask(probe.outcome.start)
    /\ DOMAIN probe.outcome.start.tasks # {}
    /\ ~probe.outcome.first.threw
    /\ DOMAIN probe.outcome.first.board.tasks = {"task-1", "r2"}
    /\ DOMAIN probe.outcome.first.board.columns = {"todo", "inprogress", "review", "done"}
    /\ probe.outcome.first.board.columns["done"].taskIds = <<"task-1">>
    /\ probe.outcome.first.board.columns["todo"].taskIds = <<"r2">>
    /\ probe.outcome.second = probe.outcome.first

\* A refresh that took the dataset branch of loadData.
DatasetRefreshStep ==
    /\ steps' = steps + 1
    /\ IsRefresh(lastOp')
    /\ lastOp'.path = "dataset"

\* C18: a refresh from the dataset never leaves a board with zero tasks;
\* when the rebuild yields no task the board is the sample board.
DatasetNeverLeavesEmptyBoard ==
    [][DatasetRefreshStep =>
          /\ DOMAIN boardData'.tasks # {}
          /\ DOMAIN loadFromDataset(boardData, columnDefinitions',
                                    lastOp'.ctx.taskDataSet).board.tasks = {}
                => boardData' = getEmptyBoardDataWithSamples(columnDefinitions')]_vars

\* The legacy value cannot be loaded: JSON.parse throws, or the flat list
\* holds an element whose ingestion throws.
LegacyCannotLoad(parsed) ==
    \/ parsed.kind = "invalid"
    \/ parsed.kind = "array" /\ \E k \in 1..Len(parsed.items) :
                                    parsed.items[k].isNull \/ ~parsed.items[k].hasStatus

\* C19: a refresh whose legacy value cannot be loaded does not raise and
\* leaves the board exactly as it was.
FailedLegacyLoadKeepsBoard ==
    [][(/\ steps' = steps + 1
        /\ IsRefresh(lastOp')
        /\ lastOp'.path = "legacy"
        /\ LegacyCannotLoad(lastOp'.ctx.tasksData))
       => (~lastOp'.threw /\ boardData' = boardData)]_vars

\* A dragstart or a dragend, delivered or not.
DragSessionStep ==
    /\ steps' = steps + 1
    /\ lastOp'.kind \in {"dragstart", "dragend", "dragendLost"}

\* C21: starting a drag and ending it changes nothing of the board (task
\* map, statuses, isOptimistic flags, column lists, columnOrder) and raises
\* no change notification.
DragWithoutDropKeepsBoard ==
    [][DragSessionStep =>
          /\ boardData' = boardData
          /\ notifications' = notifications
          /\ pendingUpdate' = pendingUpdate
          /\ lastUpdatedTask' = lastUpdatedTask]_vars

\* task-1 of the sample board was picked up and released with no drop.
CancelledDragWitness ==
    /\ steps = 3
    /\ lastOp.kind = "dragend" /\ lastOp.taskId = "task-1" /\ lastOp.source = "todo"
    /\ gesture = "none"
    /\ boardData = getEmptyBoardDataWithSamples(getDefaultColumnDefinitions)
    /\ notifications = 0

\* C22: dragstart records the card's task and the column whose list holds
\* that task at that moment, and the drop that follows works on exactly the
\* task and source column the session holds.
DragStartRecordsCardAndColumn ==
    [][/\ (steps' = steps + 1 /\ lastOp'.kind = "dragstart") =>
             /\ draggedTaskId' \in DOMAIN boardData.tasks
             /\ sourceColumnId' \in DOMAIN boardData.columns
             /\ draggedTaskId' \in Range(boardData.columns[sourceColumnId'].taskIds)
       /\ DropStep =>
             /\ lastOp'.taskId = draggedTaskId
             /\ lastOp'.source = sourceColumnId
             /\ lastOp'.moved =>
                   /\ lastUpdatedTask' = draggedTaskId
                   /\ boardData'.tasks[draggedTaskId].isOptimistic = OptTrue]_vars

\* C23: once the board is initialised, every task of the task map is listed
\* by the column its status classifies to.
TasksListedInClassifiedColumn ==
    phase = "ready" =>
        \A t \in DOMAIN boardData.tasks :
            LET columnId == getColumnIdByStatus(columnDefinitions, boardData.tasks[t].status) IN
            /\ Has(boardData.columns, columnId)
            /\ t \in Range(boardData.columns[columnId].taskIds)

\* What a board says about one task id: its status, its flag and the
\* columns that list it.
TaskView(board, t) ==
    [present |-> Has(board.tasks, t),
     status |-> IF Has(board.tasks, t) THEN board.tasks[t].status ELSE sEmpty,
     isOptimistic |-> IF Has(board.tasks, t) THEN board.tasks[t].isOptimistic ELSE OptUndefined,
     columns |-> {c \in DOMAIN board.columns : t \in Range(board.columns[c].taskIds)}]

\* C24: what a dataset load leaves for one task id (status, flag, column)
\* is the same whatever the previous board and the snapshot hold about the
\* other task ids.
ReconcileIsPerTask ==
    probe.fn = "loadFromDataset" =>
        TaskView(probe.outcome.full.board, probe.outcome.taskId)
            = TaskView(probe.outcome.alone.board, probe.outcome.taskId)


\* The drag session as one instance holds it.
SessionOf(instance) ==
    [taskId |-> instance.draggedTaskId, sourceColumnId |-> instance.sourceColumnId]

\* C25: the instances of a page share one drag session: whatever task and
\* source column one instance has recorded is what every other instance
\* reads when it handles a drop.
SessionIsShared ==
    phase = "ready" =>
        SessionOf([draggedTaskId |-> draggedTaskId, sourceColumnId |-> sourceColumnId])
            = SessionOf(otherBoard)
\* The number of task-id entries summed over all column lists.
RECURSIVE SumOfLengths(_, _)
SumOfLengths(columns, keys) ==
    IF keys = {} THEN 0
    ELSE LET c == CHOOSE k \in keys : TRUE
         IN Len(columns[c].taskIds) + SumOfLengths(columns, keys \ {c})

TotalEntries(board) == SumOfLengths(board.columns, DOMAIN board.columns)

\* C26: a drop that results in a move leaves the total number of column
\* entries as it was, whatever happened between dragstart and drop.
DropKeepsEntryCount ==
    [][(DropStep /\ lastOp'.moved) => TotalEntries(boardData') = TotalEntries(boardData)]_vars

\* C27: a refresh leaves the drag session as it found it: the recorded
\* task and source column stay, and no session stays no session.
RefreshKeepsSession ==
    [][(steps' = steps + 1 /\ IsRefresh(lastOp')) =>
          /\ draggedTaskId' = draggedTaskId
          /\ sourceColumnId' = sourceColumnId]_vars

\* A refresh ran in the middle of a drag and took the dragged task out of
\* the column it was picked up from.
RefreshMidDragWitness ==
    /\ lastOp.kind = "updateView" /\ ~lastOp.threw
    /\ gesture = "dragging"
    /\ draggedTaskId = "task-1" /\ sourceColumnId = "todo"
    /\ Has(boardData.columns, "todo")
    /\ "task-1" \notin Range(boardData.columns["todo"].taskIds)
    /\ draggedElement = "detached"

\* The ids of a list other than t, in the order of the list.
Without(list, t) == SelectSeq(list, LAMBDA id : id # t)

\* C28: a drop that moves task t from column s to column c changes nothing
\* but t and the lists of s and c: same task ids, every other task as it
\* was, every other column as it was, the other ids of s in their order,
\* the earlier ids of c in their order, and the same columnOrder.
MoveFrame ==
    [][(DropStep /\ lastOp'.moved) =>
          LET t == lastOp'.taskId
              s == lastOp'.source
              c == lastOp'.target
          IN /\ DOMAIN boardData'.tasks = DOMAIN boardData.tasks
             /\ \A u \in DOMAIN boardData.tasks \ {t} :
                    boardData'.tasks[u] = boardData.tasks[u]
             /\ DOMAIN boardData'.columns = DOMAIN boardData.columns
             /\ \A k \in DOMAIN boardData.columns \ {s, c} :
                    boardData'.columns[k] = boardData.columns[k]
             /\ Without(boardData'.columns[s].taskIds, t)
                    = Without(boardData.columns[s].taskIds, t)
             /\ SubSeq(boardData'.columns[c].taskIds, 1, Len(boardData.columns[c].taskIds))
                    = boardData.columns[c].taskIds
             /\ boardData'.columnOrder = boardData.columnOrder]_vars

\* task-1 was moved out of a column that keeps other tasks into a column
\* that already held one, on a board with tasks in a third column.
MoveFrameWitness ==
    /\ lastOp.kind = "drop" /\ lastOp.moved
    /\ lastOp.taskId = "task-1" /\ lastOp.source = "todo" /\ lastOp.target = "inprogress"
    /\ Len(boardData.columns["todo"].taskIds) >= 1
    /\ Len(boardData.columns["inprogress"].taskIds) >= 2
    /\ Len(boardData.columns["done"].taskIds) >= 1
    /\ \E u \in DOMAIN boardData.tasks \ {"task-1"} :
          boardData.tasks[u].isOptimistic # OptTrue


\* Every task that was moved is not optimistic and is listed by the column
\* it was last dropped on.
Settled ==
    \A t \in DOMAIN host.lastColumn :
        /\ Has(boardData.tasks, t)
        /\ boardData.tasks[t].isOptimistic # OptTrue
        /\ Has(boardData.columns, host.lastColumn[t])
        /\ t \in Range(boardData.columns[host.lastColumn[t]].taskIds)

\* C29: with a host that answers notifications and refreshes the control
\* from its store, the board settles: from some point on every moved task
\* is confirmed and sits in the column of its last move.
EventuallyConverges == <>[]Settled
\* The task ids of the records of a snapshot that the sentinel check at
\* lines 526-530 lets through.
LoadedIds(dataSet) ==
    {RecordTaskId(r) : r \in {x \in Range(dataSet.records) : ~IsHarnessMock(x)}}

\* C30: after loadFromDataset the task map holds exactly the task ids of
\* the snapshot's records that were not skipped, and no column lists any
\* other id: tasks absent from the snapshot are gone, optimistic or not.
DatasetLoadReplacesTasks ==
    probe.fn = "loadFromDataset" =>
        /\ DOMAIN probe.outcome.full.board.tasks = LoadedIds(probe.outcome.dataSet)
        /\ ListedIds(probe.outcome.full.board) \subseteq LoadedIds(probe.outcome.dataSet)

=============================================================================
